---- MODULE Spec2Model ----
(***************************************************************************)
(* A model of src/app.py (STEMPath): the Flask session, the roles catalog  *)
(* file data/roles.json, and the five request handlers profile, roles,     *)
(* select_role, results and reset.  Strings are TLA+ strings and the       *)
(* string methods the handlers call (strip, lower, split, in) are computed *)
(* character by character; the match score is computed in IEEE-754 double  *)
(* arithmetic, as Python computes it.                                      *)
(***************************************************************************)
EXTENDS Integers, Sequences, FiniteSets, TLC

VARIABLES
    session,        \* the Flask session of the one user
    roles_json,     \* data/roles.json as it is on disk
    request,        \* the request served last
    response,       \* and what it returned
    stale_cleared   \* history: results dropped a stale selected_role_id and
                    \* no role has been chosen since

vars == <<session, roles_json, request, response, stale_cleared>>

(***************************************************************************)
(* Python string methods.                                                  *)
(* str.strip() removes leading and trailing whitespace; the model knows    *)
(* the ASCII whitespace characters a TLA+ string can hold.  str.lower()    *)
(* maps the ASCII capitals; other characters are left as they are.         *)
(***************************************************************************)
IsSpace(c) == c \in {" ", "\t", "\n", "\r", "\f"}

RECURSIVE lstrip(_)
lstrip(s) ==
    IF Len(s) > 0 /\ IsSpace(SubSeq(s, 1, 1))
    THEN lstrip(SubSeq(s, 2, Len(s)))
    ELSE s

RECURSIVE rstrip(_)
rstrip(s) ==
    IF Len(s) > 0 /\ IsSpace(SubSeq(s, Len(s), Len(s)))
    THEN rstrip(SubSeq(s, 1, Len(s) - 1))
    ELSE s

strip(s) == rstrip(lstrip(s))

LowerOf ==
    [c \in {"A", "B", "C", "D", "E", "F", "G", "H", "I", "J", "K", "L", "M",
            "N", "O", "P", "Q", "R", "S", "T", "U", "V", "W", "X", "Y", "Z"} |->
        CASE c = "A" -> "a" [] c = "B" -> "b" [] c = "C" -> "c" [] c = "D" -> "d"
          [] c = "E" -> "e" [] c = "F" -> "f" [] c = "G" -> "g" [] c = "H" -> "h"
          [] c = "I" -> "i" [] c = "J" -> "j" [] c = "K" -> "k" [] c = "L" -> "l"
          [] c = "M" -> "m" [] c = "N" -> "n" [] c = "O" -> "o" [] c = "P" -> "p"
          [] c = "Q" -> "q" [] c = "R" -> "r" [] c = "S" -> "s" [] c = "T" -> "t"
          [] c = "U" -> "u" [] c = "V" -> "v" [] c = "W" -> "w" [] c = "X" -> "x"
          [] c = "Y" -> "y" [] c = "Z" -> "z"]

LowerChar(c) == IF c \in DOMAIN LowerOf THEN LowerOf[c] ELSE c

RECURSIVE lower(_)
lower(s) ==
    IF Len(s) = 0 THEN ""
    ELSE LowerChar(SubSeq(s, 1, 1)) \o lower(SubSeq(s, 2, Len(s)))

\* Python's  sub in s  on strings: sub occurs in s as a contiguous substring.
StrIn(sub, s) ==
    \E i \in 1..(Len(s) - Len(sub) + 1) : SubSeq(s, i, i + Len(sub) - 1) = sub

\* Python's  s.split(sep)  for a one-character separator: the pieces between
\* the separators, left to right; a string without separator is one piece.
RECURSIVE SplitFrom(_, _, _, _)
SplitFrom(s, sep, i, piece) ==
    IF i > Len(s) THEN <<piece>>
    ELSE IF SubSeq(s, i, i) = sep
         THEN <<piece>> \o SplitFrom(s, sep, i + 1, "")
         ELSE SplitFrom(s, sep, i + 1, piece \o SubSeq(s, i, i))

split(s, sep) == SplitFrom(s, sep, 1, "")

\* ", ".join(seq)
RECURSIVE join(_, _)
join(sep, seq) ==
    IF Len(seq) = 0 THEN ""
    ELSE IF Len(seq) = 1 THEN seq[1]
    ELSE seq[1] \o sep \o join(sep, Tail(seq))

\* list(seq)[:n]
Take(seq, n) == SubSeq(seq, 1, IF Len(seq) < n THEN Len(seq) ELSE n)

\* { f(x) for x in seq }
Range(seq) == {seq[i] : i \in 1..Len(seq)}

(***************************************************************************)
(* IEEE-754 binary64 arithmetic, as far as results() uses it:              *)
(*     int(round((have_count / role_total) * 100))                         *)
(* A positive double is [m, k]: its value is m / 2^(52 + k), where m is a  *)
(* number of at most 60 bits held in limbs of 13 bits, most significant    *)
(* limb first (TLC's integers have 32 bits).  Every operation rounds to 53 *)
(* significant bits, to nearest, ties to even, as the hardware does.       *)
(***************************************************************************)
RECURSIVE Pow2(_)
Pow2(n) == IF n = 0 THEN 1 ELSE 2 * Pow2(n - 1)

RECURSIVE Normalize(_)
\* carry from each limb into the one before it; the first limb takes the rest
Normalize(limbs) ==
    IF Len(limbs) = 1 THEN limbs
    ELSE LET n    == Len(limbs)
             last == limbs[n]
             up   == [SubSeq(limbs, 1, n - 1) EXCEPT ![n - 1] = @ + last \div 8192]
         IN  Append(Normalize(up), last % 8192)

RECURSIVE NormShift(_, _)
\* the least k with h * 2^k >= t, for 0 < h
NormShift(h, t) == IF h >= t THEN 0 ELSE 1 + NormShift(2 * h, t)

\* h / t for integers 0 < h <= t < 2^17: the correctly rounded quotient,
\* by long division, 13 bits at a time
FloatDiv(h, t) ==
    LET k  == NormShift(h, t)
        r0 == h * Pow2(k) - t
        d1 == (r0 * 8192) \div t
        r1 == (r0 * 8192) % t
        d2 == (r1 * 8192) \div t
        r2 == (r1 * 8192) % t
        d3 == (r2 * 8192) \div t
        r3 == (r2 * 8192) % t
        d4 == (r3 * 8192) \div t
        r4 == (r3 * 8192) % t
        guard  == (2 * r4) \div t
        sticky == (2 * r4) % t # 0
        up     == guard = 1 /\ (sticky \/ d4 % 2 = 1)
    IN  [m |-> Normalize(<<1, d1, d2, d3, d4 + (IF up THEN 1 ELSE 0)>>), k |-> k]

\* x * 100: the exact product has 59 or 60 bits, of which 53 are kept
FloatTimes100(x) ==
    LET P       == Normalize([i \in 1..5 |-> x.m[i] * 100])
        unit    == IF P[1] < 128 THEN 64 ELSE 128
        dropped == P[5] % unit
        keptOdd == (P[5] \div unit) % 2 = 1
        up      == dropped * 2 > unit \/ (dropped * 2 = unit /\ keptOdd)
    IN  [m |-> Normalize([P EXCEPT ![5] = @ - dropped + (IF up THEN unit ELSE 0)]),
         k |-> x.k]

\* int(round(x)) for a positive double x < 256: to nearest, ties to even
FloatRound(x) ==
    LET whole    == x.m[1] \div Pow2(x.k)
        fracTop  == IF x.k = 0 THEN x.m[2] ELSE x.m[1] % Pow2(x.k)
        halfTop  == IF x.k = 0 THEN 4096 ELSE Pow2(x.k - 1)
        fracRest == \E i \in (IF x.k = 0 THEN 3 ELSE 2)..5 : x.m[i] # 0
        up       == \/ fracTop > halfTop
                    \/ fracTop = halfTop /\ (fracRest \/ whole % 2 = 1)
    IN  IF up THEN whole + 1 ELSE whole

\* int(round((have_count / role_total) * 100)), 0 <= have_count <= role_total
MatchScore(have_count, role_total) ==
    IF have_count = 0 THEN 0
    ELSE FloatRound(FloatTimes100(FloatDiv(have_count, role_total)))

(***************************************************************************)
(* sorted() on strings compares code points; Alphabet lists the characters *)
(* of the catalogs' category names in code-point order.                    *)
(***************************************************************************)
Alphabet == " -ABCDEFGHIJKLMNOPQRSTUVWXYZabcdefghijklmnopqrstuvwxyz"

CharCode(c) == CHOOSE i \in 1..Len(Alphabet) : SubSeq(Alphabet, i, i) = c

RECURSIVE StrLess(_, _)
StrLess(a, b) ==
    IF Len(b) = 0 THEN FALSE
    ELSE IF Len(a) = 0 THEN TRUE
    ELSE LET ca == CharCode(SubSeq(a, 1, 1))
             cb == CharCode(SubSeq(b, 1, 1))
         IN  IF ca # cb THEN ca < cb
             ELSE StrLess(SubSeq(a, 2, Len(a)), SubSeq(b, 2, Len(b)))

RECURSIVE sorted(_)
\* sorted(S) for a set of strings
sorted(S) ==
    IF S = {} THEN <<>>
    ELSE LET least == CHOOSE x \in S : \A y \in S \ {x} : StrLess(x, y)
         IN  <<least>> \o sorted(S \ {least})

\* seq[a:b] for 0 <= a <= b
Slice(seq, a, b) ==
    SubSeq(seq, a + 1, IF Len(seq) < b THEN Len(seq) ELSE b)

(***************************************************************************)
(* The Flask session: a dictionary, here a function on the keys present.   *)
(* Forms and query arguments are dictionaries too; .get(key, default).     *)
(***************************************************************************)
EmptyDict == [k \in {} |-> ""]

Get(dict, key, default) == IF key \in DOMAIN dict THEN dict[key] ELSE default

Put(dict, key, value) ==
    [k \in DOMAIN dict \cup {key} |-> IF k = key THEN value ELSE dict[k]]

\* dict.pop(key, None)
Pop(dict, key) == [k \in DOMAIN dict \ {key} |-> dict[k]]

\* not session.get("profile"): the key is absent (a stored profile is a
\* dictionary of three keys, which is never falsy)
NoProfile(sess) == "profile" \notin DOMAIN sess

\* not session.get("selected_role_id"): the key is absent or holds ""
NoSelection(sess) ==
    "selected_role_id" \notin DOMAIN sess \/ sess["selected_role_id"] = ""

Redirect(endpoint) == [kind |-> "redirect", to |-> endpoint]

Render(template, context) ==
    [kind |-> "render", template |-> template, context |-> context]

Raise(exception) == [kind |-> "error", exception |-> exception]

(***************************************************************************)
(* data/roles.json.  The file is not part of the program: it is edited     *)
(* from outside and read afresh by every request that needs it.  The       *)
(* contents the model lets it take are listed here.                        *)
(***************************************************************************)
BigRoleLen == 200

DataAnalyst ==
    [id |-> "data-analyst", title |-> "Data Analyst", category |-> "Data",
     description |-> "Turns raw data into insight",
     top_skills |-> <<"SQL", "Excel", "Python">>]

DataAnalystAgain ==
    [id |-> "data-analyst", title |-> "Junior Data Analyst", category |-> "Data",
     description |-> "A second record under the same id",
     top_skills |-> <<"Excel">>]

SecurityAnalyst ==
    [id |-> "security-analyst", title |-> "Security Analyst",
     category |-> " Security ", description |-> "Defends the network",
     top_skills |-> <<"Networking", " security basics ", "Networking",
                      "Incident Response">>]

Intern ==
    [id |-> "intern", title |-> "STEM Intern", category |-> "General",
     description |-> "", top_skills |-> <<>>]

SoftwareEngineer ==
    [id |-> "software-engineer", title |-> "Software Engineer",
     category |-> "Software", description |-> "Builds cloud services",
     top_skills |-> <<"SQL", "Cloud", "python">>]

\* a role that lists BigRoleLen skills, all but the last the same
Generalist ==
    [id |-> "generalist", title |-> "Generalist", category |-> "Business",
     description |-> "Does a bit of everything",
     top_skills |-> [i \in 1..BigRoleLen |->
                        IF i = BigRoleLen THEN "Python" ELSE "SQL"]]

\* and one that lists one skill fewer
Specialist ==
    [id |-> "specialist", title |-> "Specialist", category |-> "Science",
     description |-> "Does one thing well",
     top_skills |-> [i \in 1..(BigRoleLen - 1) |->
                        IF i = 1 THEN "Python" ELSE "SQL"]]

Broken == [id |-> "broken", title |-> "Broken record"]

RolesFiles ==
    { [exists |-> TRUE,
       roles |-> <<DataAnalyst, SecurityAnalyst, Intern, SoftwareEngineer, Generalist,
                   Specialist>>],
      [exists |-> TRUE, roles |-> <<SecurityAnalyst, DataAnalystAgain, DataAnalyst>>],
      [exists |-> TRUE, roles |-> <<DataAnalyst, Broken>>],
      [exists |-> FALSE, roles |-> <<>>] }

(***************************************************************************)
(* load_roles, find_role_by_id, normalize_skill                            *)
(***************************************************************************)
required_keys == {"id", "title", "category", "description", "top_skills"}

\* The roles of the file, or the exception raised.  (That top_skills is a
\* list is not modelled: every top_skills here is one.)
load_roles ==
    IF ~roles_json.exists THEN [ok |-> FALSE, exception |-> "FileNotFoundError"]
    ELSE IF \E i \in 1..Len(roles_json.roles) :
                required_keys \ DOMAIN roles_json.roles[i] # {}
    THEN [ok |-> FALSE, exception |-> "ValueError"]
    ELSE [ok |-> TRUE, roles |-> roles_json.roles]

\* next((r for r in roles if r["id"] == role_id), None): the position of the
\* first role with that id, 0 for None
find_role_by_id(role_id, roles_catalog) ==
    LET hits == {i \in 1..Len(roles_catalog) : roles_catalog[i].id = role_id}
    IN  IF hits = {} THEN 0 ELSE CHOOSE i \in hits : \A j \in hits : i <= j

normalize_skill(s) == lower(strip(s))

(***************************************************************************)
(* The inputs of the requests.                                             *)
(***************************************************************************)
ProfileForms ==
    { [degree |-> " BSc Computing ", location |-> " Kingston ",
       skills |-> "SQL, , Python,  "],
      [degree |-> "BSc", location |-> "", skills |-> "sql,  excel "],
      [degree |-> "BSc", location |-> "", skills |-> " python"],
      [degree |-> "BSc", location |-> "", skills |-> "SQL,\tsql,Sql "],
      [degree |-> "BSc", location |-> "", skills |-> "SQL,Excel,PYTHON,Cloud"],
      [degree |-> "MSc", location |-> "Remote",
       skills |-> "networking,Security Basics,incident response"],
      [degree |-> "MSc", location |-> "Remote", skills |-> "Networking"],
      [degree |-> "", location |-> "", skills |-> " , ,"],
      [degree |-> "BSc"] }

RolesArgs ==
    { EmptyDict,
      [q |-> "", cat |-> ""],
      [q |-> "SQL"],
      [q |-> " sql "],
      [q |-> "analyst", cat |-> ""],
      [q |-> "  "],
      [q |-> "data", cat |-> "DATA "],
      [q |-> "a b"],
      [q |-> "quantum"],
      [cat |-> "security"],
      [cat |-> " Security "] }

SelectForms ==
    { EmptyDict,
      [role_id |-> ""],
      [role_id |-> " \t"],
      [role_id |-> "data-analyst"],
      [role_id |-> " security-analyst "],
      [role_id |-> "intern"],
      [role_id |-> "software-engineer"],
      [role_id |-> "generalist"],
      [role_id |-> "specialist"],
      [role_id |-> "ghost"] }

(***************************************************************************)
(* home, profile                                                           *)
(***************************************************************************)
home ==
    /\ request' = [op |-> "home"]
    /\ response' = Render("home.html", EmptyDict)
    /\ UNCHANGED <<session, roles_json, stale_cleared>>

\* as UserSkillsOf, without the filter on the empty pieces
UserSkillsOf_KeepsEmpty(skills_raw) ==
    LET pieces == split(skills_raw, ",")
    IN  [i \in 1..Len(pieces) |-> strip(pieces[i])]

\* [s.strip() for s in skills_raw.split(",") if s.strip()]
UserSkillsOf(skills_raw) ==
    LET pieces   == split(skills_raw, ",")
        stripped == [i \in 1..Len(pieces) |-> strip(pieces[i])]
        NonEmpty(x) == x # ""
    IN  SelectSeq(stripped, NonEmpty)

profile_post(form) ==
    LET degree      == strip(Get(form, "degree", ""))
        location    == strip(Get(form, "location", ""))
        skills_raw  == strip(Get(form, "skills", ""))
        user_skills == UserSkillsOf(skills_raw)
    IN  /\ request' = [op |-> "profile", method |-> "POST", form |-> form]
        /\ session' = Put(session, "profile",
                          [degree |-> degree, location |-> location,
                           user_skills |-> user_skills])
        /\ response' = Redirect("roles")
        /\ UNCHANGED <<roles_json, stale_cleared>>

profile_get ==
    /\ request' = [op |-> "profile", method |-> "GET", form |-> EmptyDict]
    /\ response' = Render("profile.html",
                          [existing |-> Get(session, "profile", EmptyDict)])
    /\ UNCHANGED <<session, roles_json, stale_cleared>>

(***************************************************************************)
(* roles: the listing, filtered by the query and the category              *)
(***************************************************************************)
\* as matches_query, without the search in the skills
matches_query_NoSkills(query, r) ==
    \/ query = ""
    \/ StrIn(query, lower(r.title))
    \/ StrIn(query, lower(r.description))

matches_query(query, r) ==
    \/ query = ""
    \/ StrIn(query, lower(r.title))
    \/ StrIn(query, lower(r.description))
    \/ \E i \in 1..Len(r.top_skills) : StrIn(query, lower(r.top_skills[i]))

matches_cat(category, r) == category = "" \/ category = lower(r.category)

FilterRoles(roles_catalog, query, category) ==
    LET Keep(r) == matches_query(query, r) /\ matches_cat(category, r)
    IN  SelectSeq(roles_catalog, Keep)

roles(args) ==
    /\ request' = [op |-> "roles", args |-> args]
    /\ UNCHANGED <<session, roles_json, stale_cleared>>
    /\ IF NoProfile(session) THEN response' = Redirect("profile")
       ELSE LET loaded == load_roles IN
            IF ~loaded.ok THEN response' = Raise(loaded.exception)
            ELSE LET roles_catalog == loaded.roles
                     query      == lower(strip(Get(args, "q", "")))
                     category   == lower(strip(Get(args, "cat", "")))
                     categories == sorted({roles_catalog[i].category :
                                              i \in 1..Len(roles_catalog)})
                 IN  response' = Render("roles.html",
                        [profile |-> session["profile"],
                         roles |-> FilterRoles(roles_catalog, query, category),
                         categories |-> categories,
                         q |-> Get(args, "q", ""),
                         cat |-> Get(args, "cat", "")])

(***************************************************************************)
(* select_role                                                             *)
(***************************************************************************)
\* as select_role, with the id stored before the profile is looked for
select_role_StoresFirst(form) ==
    LET role_id == strip(Get(form, "role_id", "")) IN
    /\ request' = [op |-> "select_role", form |-> form]
    /\ UNCHANGED roles_json
    /\ IF role_id = ""
       THEN /\ response' = Redirect(IF NoProfile(session) THEN "profile" ELSE "roles")
            /\ UNCHANGED <<session, stale_cleared>>
       ELSE /\ session' = Put(session, "selected_role_id", role_id)
            /\ response' = Redirect(IF NoProfile(session) THEN "profile" ELSE "results")
            /\ stale_cleared' = FALSE

\* as select_role, with a blank id stored like any other
select_role_StoresBlank(form) ==
    /\ request' = [op |-> "select_role", form |-> form]
    /\ UNCHANGED roles_json
    /\ IF NoProfile(session)
       THEN response' = Redirect("profile") /\ UNCHANGED <<session, stale_cleared>>
       ELSE /\ session' = Put(session, "selected_role_id",
                              strip(Get(form, "role_id", "")))
            /\ response' = Redirect("results")
            /\ stale_cleared' = FALSE

select_role(form) ==
    /\ request' = [op |-> "select_role", form |-> form]
    /\ UNCHANGED roles_json
    /\ IF NoProfile(session)
       THEN response' = Redirect("profile") /\ UNCHANGED <<session, stale_cleared>>
       ELSE LET role_id == strip(Get(form, "role_id", "")) IN
            IF role_id = ""
            THEN response' = Redirect("roles") /\ UNCHANGED <<session, stale_cleared>>
            ELSE /\ session' = Put(session, "selected_role_id", role_id)
                 /\ response' = Redirect("results")
                 /\ stale_cleared' = FALSE

(***************************************************************************)
(* results: the skill gap, the match score and the recommendations         *)
(***************************************************************************)
\* (the dash of the two "Beginner-Intermediate" levels is written in ASCII)
CERT_LIBRARY ==
    << [name |-> "Google Data Analytics Professional Certificate",
        provider |-> "Coursera", level |-> "Beginner-Intermediate",
        skills |-> <<"SQL", "Data Visualization", "Spreadsheets">>,
        tags |-> <<"data", "analytics">>, link |-> ""],
       [name |-> "IBM Data Science Professional Certificate",
        provider |-> "Coursera", level |-> "Intermediate",
        skills |-> <<"Python", "Machine Learning", "Data Analysis">>,
        tags |-> <<"data", "software">>, link |-> ""],
       [name |-> "Microsoft Azure Fundamentals (AZ-900)",
        provider |-> "Microsoft", level |-> "Beginner",
        skills |-> <<"Cloud", "Networking", "Security Basics">>,
        tags |-> <<"it", "security", "software">>, link |-> ""],
       [name |-> "CompTIA Security+",
        provider |-> "CompTIA", level |-> "Intermediate",
        skills |-> <<"Security Basics", "Networking", "Incident Response">>,
        tags |-> <<"security">>, link |-> ""],
       [name |-> "AWS Certified Cloud Practitioner",
        provider |-> "AWS", level |-> "Beginner",
        skills |-> <<"Cloud", "Networking", "Security Basics">>,
        tags |-> <<"it", "software">>, link |-> ""],
       [name |-> "Google Project Management Professional Certificate",
        provider |-> "Coursera", level |-> "Beginner-Intermediate",
        skills |-> <<"Project Management", "Communication", "Teamwork">>,
        tags |-> <<"business", "software", "healthcare", "science">>,
        link |-> ""] >>

\* {normalize_skill(s) for s in profile_data.get("user_skills", [])}
UserSkillsNorm(user_skills) == {normalize_skill(s) : s \in Range(user_skills)}

\* as MissingSkills, with the skills compared as they are spelled
MissingSkills_Unnormalized(user_skills, top_skills) ==
    LET Absent(x) == x \notin Range(user_skills)
    IN  SelectSeq(top_skills, Absent)

\* as MissingSkills, but listing the normalized spelling
MissingSkills_Normalized(user_skills, top_skills) ==
    LET user_skills_norm == UserSkillsNorm(user_skills)
        role_skills_norm == [i \in 1..Len(top_skills) |->
                                normalize_skill(top_skills[i])]
        Absent(x) == x \notin user_skills_norm
    IN  SelectSeq(role_skills_norm, Absent)

\* [top_skills[i] for i, sk in enumerate(role_skills_norm)
\*                if sk not in user_skills_norm]
MissingSkills(user_skills, top_skills) ==
    LET user_skills_norm == UserSkillsNorm(user_skills)
        role_skills_norm == [i \in 1..Len(top_skills) |->
                                normalize_skill(top_skills[i])]
        enumerated == [i \in 1..Len(top_skills) |->
                          [i |-> i, sk |-> role_skills_norm[i]]]
        Absent(e)  == e.sk \notin user_skills_norm
        kept       == SelectSeq(enumerated, Absent)
    IN  [n \in 1..Len(kept) |-> top_skills[kept[n].i]]

\* as ScoreOf, with the missing skills counted as the ones the user has
ScoreOf_CountsMissing(top_skills, missing_skills) ==
    LET role_total == IF Len(top_skills) > 1 THEN Len(top_skills) ELSE 1
    IN  MatchScore(Len(missing_skills), role_total)

\* role_total, have_count and match_score
ScoreOf(top_skills, missing_skills) ==
    LET role_total == IF Len(top_skills) > 1 THEN Len(top_skills) ELSE 1
        have_count == role_total - Len(missing_skills)
    IN  MatchScore(have_count, role_total)

\* The orders in which Python may iterate over a set of strings: the order
\* follows the strings' hashes, which differ from one process to the next.
IterationOrders(S) ==
    {f \in [1..Cardinality(S) -> S] : \A x \in S : \E i \in DOMAIN f : f[i] = x}

\* One entry of recommended_certs, or none; order is the iteration order of
\* missing_norm
CertEntry(cert, role, order) ==
    LET role_category_tag == lower(strip(role.category))
        cert_skill_norm == {normalize_skill(x) : x \in Range(cert.skills)}
        InCert(x)      == x \in cert_skill_norm
        covered        == SelectSeq(order, InCert)
        covers_gap     == Len(covered) > 0
        category_match == role_category_tag \in {lower(t) : t \in Range(cert.tags)}
        reason ==
            IF Len(covered) > 0
            THEN "Recommended because it helps you build: "
                     \o join(", ", Take(covered, 3)) \o "."
            ELSE "Recommended based on your target role in " \o role.category \o "."
    IN  IF covers_gap \/ category_match
        THEN << [name |-> cert.name, provider |-> cert.provider,
                 level |-> cert.level, skills |-> cert.skills,
                 reason |-> reason, link |-> cert.link] >>
        ELSE <<>>

RECURSIVE CertsFrom(_, _, _)
CertsFrom(i, role, order) ==
    IF i > Len(CERT_LIBRARY) THEN <<>>
    ELSE CertEntry(CERT_LIBRARY[i], role, order) \o CertsFrom(i + 1, role, order)

\* as RecommendedCerts, without the cut
RecommendedCerts_Uncut(role, order) == CertsFrom(1, role, order)

\* recommended_certs, cut to its first four entries
RecommendedCerts(role, order) == Take(CertsFrom(1, role, order), 4)

RecommendedLearning(missing_skills) ==
    LET first4 == Take(missing_skills, 4)
    IN  [i \in 1..Len(first4) |->
            [title |-> first4[i] \o " Fundamentals", provider |-> "edX",
             skill |-> first4[i], format |-> "Course", link |-> ""]]

JobListings(profile_data, role) ==
    LET location == IF profile_data.location = "" THEN "Remote"
                    ELSE profile_data.location
    IN  << [title |-> role.title \o " (Entry-Level)", company |-> "Sample Company A",
            location |-> location, skills |-> Slice(role.top_skills, 0, 4),
            link |-> ""],
           [title |-> "Junior " \o role.title, company |-> "Sample Company B",
            location |-> location, skills |-> Slice(role.top_skills, 1, 5),
            link |-> ""],
           [title |-> role.title \o " Intern", company |-> "Sample Company C",
            location |-> "Remote", skills |-> Slice(role.top_skills, 0, 3),
            link |-> ""] >>

ResultsObj(profile_data, role, order) ==
    LET missing_skills == MissingSkills(profile_data.user_skills, role.top_skills)
    IN  [degree |-> profile_data.degree,
         location |-> profile_data.location,
         user_skills |-> profile_data.user_skills,
         selected_role |-> role.title,
         top_skills_in_jobs |-> role.top_skills,
         missing_skills |-> missing_skills,
         match_score |-> ScoreOf(role.top_skills, missing_skills),
         recommended_certs |-> RecommendedCerts(role, order),
         recommended_learning |-> RecommendedLearning(missing_skills),
         job_listings |-> JobListings(profile_data, role)]

\* as DropStaleSelection, with the id left in the session
DropStaleSelection_KeepsId ==
    /\ response' = Redirect("roles")
    /\ UNCHANGED <<session, stale_cleared>>

\* the selected role is not in the catalog: forget it and go to the listing
DropStaleSelection ==
    /\ session' = Pop(session, "selected_role_id")
    /\ response' = Redirect("roles")
    /\ stale_cleared' = TRUE

results ==
    /\ request' = [op |-> "results"]
    /\ UNCHANGED roles_json
    /\ IF NoProfile(session)
       THEN response' = Redirect("profile") /\ UNCHANGED <<session, stale_cleared>>
       ELSE IF NoSelection(session)
       THEN response' = Redirect("roles") /\ UNCHANGED <<session, stale_cleared>>
       ELSE LET loaded == load_roles IN
            IF ~loaded.ok
            THEN /\ response' = Raise(loaded.exception)
                 /\ UNCHANGED <<session, stale_cleared>>
            ELSE LET found == find_role_by_id(session["selected_role_id"],
                                              loaded.roles) IN
                 IF found = 0
                 THEN DropStaleSelection
                 ELSE LET profile_data == session["profile"]
                          role == loaded.roles[found]
                          missing_norm ==
                              {normalize_skill(x) : x \in
                                  Range(MissingSkills(profile_data.user_skills,
                                                      role.top_skills))}
                      IN  /\ \E order \in IterationOrders(missing_norm) :
                                response' = Render("results.html",
                                    [results |-> ResultsObj(profile_data, role, order)])
                          /\ UNCHANGED <<session, stale_cleared>>

(***************************************************************************)
(* reset, and the edits of data/roles.json made from outside               *)
(***************************************************************************)
\* as reset, with only the profile removed
reset_KeepsSelection ==
    /\ request' = [op |-> "reset"]
    /\ session' = Pop(session, "profile")
    /\ response' = Redirect("home")
    /\ UNCHANGED <<roles_json, stale_cleared>>

reset ==
    /\ request' = [op |-> "reset"]
    /\ session' = EmptyDict
    /\ response' = Redirect("home")
    /\ UNCHANGED <<roles_json, stale_cleared>>

NoRequest == [op |-> "none"]

NoResponse == [kind |-> "none"]

\* the request and response on record were made against the old file
EditRolesFile ==
    /\ \E file \in RolesFiles : file # roles_json /\ roles_json' = file
    /\ request' = NoRequest
    /\ response' = NoResponse
    /\ UNCHANGED <<session, stale_cleared>>

(***************************************************************************)
(* The specification                                                       *)
(***************************************************************************)
Init ==
    /\ session = EmptyDict
    /\ roles_json \in RolesFiles
    /\ request = NoRequest
    /\ response = NoResponse
    /\ stale_cleared = FALSE

Next ==
    \/ home
    \/ \E form \in ProfileForms : profile_post(form)
    \/ profile_get
    \/ \E args \in RolesArgs : roles(args)
    \/ \E form \in SelectForms : select_role(form)
    \/ results
    \/ reset
    \/ EditRolesFile

Spec == Init /\ [][Next]_vars

(***************************************************************************)
(* What the claims speak of                                                *)
(***************************************************************************)
\* the last request was /results and it rendered the results page
ResultsShown == request.op = "results" /\ response.kind = "render"

Shown == response.context.results

\* the role the results page was computed for
ShownRole ==
    LET catalog == roles_json.roles
        wanted  == session["selected_role_id"]
    IN  catalog[CHOOSE i \in 1..Len(catalog) :
                    /\ catalog[i].id = wanted
                    /\ \A j \in 1..(i - 1) : catalog[j].id # wanted]

\* trim + lower-case
Normal(x) == lower(strip(x))

ShownUserSet == {Normal(x) : x \in Range(Shown.user_skills)}

\* position i of the role's top_skills is covered by the user's skills
Present(i) == Normal(Shown.top_skills_in_jobs[i]) \in ShownUserSet

RoleLen == Len(Shown.top_skills_in_jobs)

AllPresent == \A i \in 1..RoleLen : Present(i)

NonePresent == \A i \in 1..RoleLen : ~Present(i)

\* seq is the subsequence of source at the positions in keep, in order
IsSubsequenceAt(seq, source, keep) ==
    /\ Len(seq) = Cardinality(keep)
    /\ \A i \in keep : seq[Cardinality({j \in keep : j <= i})] = source[i]

(***************************************************************************)
(* C1.  As claimed: for every role and every user skill collection the     *)
(* match_score of the results page is an integer in 0..100, and it is 100  *)
(* if and only if every role skill, normalized, is among the normalized    *)
(* user skills.                                                            *)
(***************************************************************************)
C1_AsClaimed ==
    ResultsShown =>
        /\ Shown.match_score \in 0..100
        /\ Shown.match_score = 100 <=> AllPresent

\* C1, amended: the match_score is an integer in 0..100; it is 100 whenever
\* every normalized role skill is among the normalized user skills (so for a
\* role without top_skills), and for a role of fewer than 200 top_skills
\* only then.
C1_ScoreHundred ==
    ResultsShown =>
        /\ Shown.match_score \in 0..100
        /\ AllPresent => Shown.match_score = 100
        /\ (RoleLen < 200 /\ Shown.match_score = 100) => AllPresent

C1_Witness ==
    /\ ResultsShown
    /\ RoleLen = 3
    /\ AllPresent
    /\ Shown.match_score = 100

(***************************************************************************)
(* C2.  As claimed: the match_score is 0 if and only if none of the role's *)
(* normalized skills is among the normalized user skills.                  *)
(***************************************************************************)
C2_AsClaimed == ResultsShown => (Shown.match_score = 0 <=> NonePresent)

\* C2, amended: for a role with at least one top skill the match_score is 0
\* whenever none of its normalized skills is among the normalized user
\* skills, and for a role of 1 to 199 top_skills only then; a role without
\* top_skills scores 100.
C2_ScoreZero ==
    ResultsShown =>
        /\ (RoleLen >= 1 /\ NonePresent) => Shown.match_score = 0
        /\ (RoleLen < 200 /\ Shown.match_score = 0) => (RoleLen >= 1 /\ NonePresent)
        /\ RoleLen = 0 => Shown.match_score = 100

C2_Witness ==
    /\ ResultsShown
    /\ RoleLen = 3
    /\ NonePresent
    /\ Shown.match_score = 0

(***************************************************************************)
(* C3.  missing_skills is the subsequence of the role's top_skills, in     *)
(* role order and original spelling, at exactly the positions whose        *)
(* normalized skill is not among the normalized user skills: a skill       *)
(* listed k times and absent is missing k times, and only the set of the   *)
(* user's skills counts.  For the role SQL, Excel, Python and the user     *)
(* skills sql, excel: missing Python, score 67.                            *)
(***************************************************************************)
C3_MissingSkills ==
    ResultsShown =>
        /\ IsSubsequenceAt(Shown.missing_skills, Shown.top_skills_in_jobs,
                           {i \in 1..RoleLen : ~Present(i)})
        /\ (/\ Shown.top_skills_in_jobs = <<"SQL", "Excel", "Python">>
            /\ Shown.user_skills = <<"sql", "excel">>)
           => (Shown.missing_skills = <<"Python">> /\ Shown.match_score = 67)

\* a skill listed twice and absent is missing twice, in its own spelling,
\* next to one that is present in another spelling
C3_Witness ==
    /\ ResultsShown
    /\ Shown.top_skills_in_jobs =
           <<"Networking", " security basics ", "Networking", "Incident Response">>
    /\ Shown.user_skills = <<"SQL", "sql", "Sql">>
    /\ Shown.missing_skills = Shown.top_skills_in_jobs

(***************************************************************************)
(* C4.  As claimed: for every query string q and an empty category the     *)
(* listing is the catalog-order subsequence of the catalog holding exactly *)
(* the roles that contain q, case-insensitively, in the title, the         *)
(* description or one of the skills.                                       *)
(***************************************************************************)
\* the last request was /roles with an empty category, and it rendered
ListingShown ==
    /\ request.op = "roles"
    /\ response.kind = "render"
    /\ Get(request.args, "cat", "") = ""

\* role r contains needle, case-insensitively
Contains(r, needle) ==
    \/ StrIn(lower(needle), lower(r.title))
    \/ StrIn(lower(needle), lower(r.description))
    \/ \E i \in 1..Len(r.top_skills) : StrIn(lower(needle), lower(r.top_skills[i]))

ListingIsExactly(needle) ==
    IsSubsequenceAt(response.context.roles, roles_json.roles,
                    {i \in 1..Len(roles_json.roles) :
                        Contains(roles_json.roles[i], needle)})

C4_AsClaimed == ListingShown => ListingIsExactly(Get(request.args, "q", ""))

\* C4, amended: ... exactly the roles that contain q with its leading and
\* trailing whitespace removed ...
C4_Listing == ListingShown => ListingIsExactly(strip(Get(request.args, "q", "")))

\* a query in blanks that selects some roles and leaves some out
C4_Witness ==
    /\ ListingShown
    /\ Get(request.args, "q", "") = " sql "
    /\ Len(response.context.roles) = 4
    /\ Len(roles_json.roles) = 6

(***************************************************************************)
(* C5.  recommended_certs has at most 4 entries and is the first 4 (or     *)
(* all, if fewer) entries of the certification library, in library order,  *)
(* that qualify: an entry qualifies if and only if its normalized skills   *)
(* meet the normalized missing skills or the role's normalized category is *)
(* one of its tags.                                                        *)
(***************************************************************************)
Qualifies(i) ==
    \/ {Normal(x) : x \in Range(CERT_LIBRARY[i].skills)}
          \cap {Normal(x) : x \in Range(Shown.missing_skills)} # {}
    \/ Normal(ShownRole.category) \in Range(CERT_LIBRARY[i].tags)

Qualifying == {i \in 1..Len(CERT_LIBRARY) : Qualifies(i)}

FirstFourQualifying ==
    {i \in Qualifying : Cardinality({j \in Qualifying : j <= i}) <= 4}

C5_RecommendedCerts ==
    ResultsShown =>
        /\ Len(Shown.recommended_certs) <= 4
        /\ IsSubsequenceAt([n \in 1..Len(Shown.recommended_certs) |->
                               Shown.recommended_certs[n].name],
                           [i \in 1..Len(CERT_LIBRARY) |-> CERT_LIBRARY[i].name],
                           FirstFourQualifying)

\* five entries qualify, some by the gap and some by the category alone, and
\* the fifth is cut
C5_Witness ==
    /\ ResultsShown
    /\ Qualifying = {1, 2, 3, 5, 6}
    /\ Len(Shown.recommended_certs) = 4
    /\ Shown.recommended_certs[4].name = "AWS Certified Cloud Practitioner"

(***************************************************************************)
(* C6.  As claimed: when results runs with a profile and a                 *)
(* selected_role_id that does not resolve in the catalog, the id is        *)
(* cleared, the profile kept and the answer a redirect to the listing; and *)
(* every later results keeps redirecting to the listing until a new role   *)
(* is chosen.                                                              *)
(***************************************************************************)
\* results is about to look up a selected_role_id the catalog does not hold
StaleSelection ==
    /\ ~NoProfile(session)
    /\ ~NoSelection(session)
    /\ roles_json.exists
    /\ \A i \in 1..Len(roles_json.roles) :
          /\ required_keys \subseteq DOMAIN roles_json.roles[i]
          /\ roles_json.roles[i].id # session["selected_role_id"]

ClearsStaleSelection ==
    (StaleSelection /\ request'.op = "results") =>
        /\ DOMAIN session' = {"profile"}
        /\ session'["profile"] = session["profile"]
        /\ response' = Redirect("roles")

C7_NoProfile ==
    [][(NoProfile(session) /\ request'.op \in {"roles", "select_role", "results"}) =>
          (response' = Redirect("profile") /\ session' = session)]_vars

\* a role id was sent without a profile and was not stored
C7_Witness ==
    /\ request.op = "select_role"
    /\ Get(request.form, "role_id", "") = "data-analyst"
    /\ response = Redirect("profile")
    /\ session = EmptyDict

(***************************************************************************)
(* C8.  As claimed: with a profile, select_role with a missing or blank    *)
(* role id redirects to the listing and leaves selected_role_id as it was; *)
(* a non-blank id is stored as selected_role_id, replacing any earlier     *)
(* one, and the answer is a redirect to the results.                       *)
(***************************************************************************)
SelectStores(role_id, stored) ==
    (~NoProfile(session) /\ request'.op = "select_role") =>
        IF strip(role_id) = ""
        THEN response' = Redirect("roles") /\ session' = session
        ELSE /\ session' = Put(session, "selected_role_id", stored)
             /\ response' = Redirect("results")

C8_AsClaimed ==
    [][LET role_id == Get(request'.form, "role_id", "")
       IN  SelectStores(role_id, role_id)]_vars

\* C8, amended: ... a non-blank id is stored, with its leading and trailing
\* whitespace removed, as selected_role_id ...
C8_SelectRole ==
    [][LET role_id == Get(request'.form, "role_id", "")
       IN  SelectStores(role_id, strip(role_id))]_vars

\* a blank id came in while a role was selected, and the role stayed
C8_Witness ==
    /\ request.op = "select_role"
    /\ Get(request.form, "role_id", "") = " \t"
    /\ response = Redirect("roles")
    /\ "selected_role_id" \in DOMAIN session
    /\ session["selected_role_id"] = "intern"

(***************************************************************************)
(* C9.  A posted profile stores as user_skills the pieces of the skills    *)
(* field between its commas, each trimmed, in their order and their letter *)
(* case, without the pieces that are empty once trimmed; and the stored    *)
(* profile is made of the form alone.                                      *)
(***************************************************************************)
ProfilePosted == request.op = "profile" /\ request.method = "POST"

PostedSkills == Get(request.form, "skills", "")

\* the positions around the pieces: before the field, each comma, after it
Cuts == {0, Len(PostedSkills) + 1}
            \cup {i \in 1..Len(PostedSkills) : SubSeq(PostedSkills, i, i) = ","}

\* the piece that starts after the cut at a
PieceAfter(a) ==
    LET b == CHOOSE c \in Cuts : c > a /\ \A d \in Cuts : d > a => c <= d
    IN  SubSeq(PostedSkills, a + 1, b - 1)

Starts == {a \in Cuts : a <= Len(PostedSkills) /\ strip(PieceAfter(a)) # ""}

C9_StoredSkills ==
    ProfilePosted =>
        LET stored == session["profile"]
        IN  /\ Len(stored.user_skills) = Cardinality(Starts)
            /\ \A a \in Starts :
                  stored.user_skills[Cardinality({c \in Starts : c <= a})]
                      = strip(PieceAfter(a))
            /\ PostedSkills = "SQL, , Python,  "
                  => stored.user_skills = <<"SQL", "Python">>
            /\ DOMAIN stored = {"degree", "location", "user_skills"}
            /\ stored.degree = strip(Get(request.form, "degree", ""))
            /\ stored.location = strip(Get(request.form, "location", ""))

C9_Witness ==
    /\ ProfilePosted
    /\ PostedSkills = "SQL, , Python,  "
    /\ session["profile"].user_skills = <<"SQL", "Python">>

(***************************************************************************)
(* C10.  In every reachable session a selected_role_id is present only if  *)
(* a profile is; reset removes both; and posting a profile again leaves a  *)
(* selected_role_id as it is.                                              *)
(***************************************************************************)
C10_SelectionNeedsProfile ==
    /\ []("selected_role_id" \in DOMAIN session => "profile" \in DOMAIN session)
    /\ [][/\ request'.op = "reset" => session' = EmptyDict
          /\ (request'.op = "profile" /\ request'.method = "POST") =>
                Pop(session', "profile") = Pop(session, "profile")]_vars

\* a profile was posted again and the role chosen before is still selected
C10_Witness ==
    /\ ProfilePosted
    /\ "selected_role_id" \in DOMAIN session
    /\ session["selected_role_id"] = "data-analyst"

====
